---- MODULE Spec2Model ----
(***************************************************************************)
(* A model of the resumable fetch pipeline of curro_solarman_api:          *)
(*   processor/processor.py           DeviceDataProcessor.run, process_date *)
(*   processor/checkpoint_manager.py  CheckpointManager                     *)
(*   api/data.py, api/client.py       fetch_device_data over create_session *)
(*   shutdown/shutdown_controller.py  the shutdown flag                     *)
(*   utils/dates.py                   get_daily_unix_ranges                 *)
(* The coordinator thread, the pool's worker tasks, the file system and    *)
(* the operating system (signals, process kill, restart) are the processes.*)
(* Timestamps written into the checkpoint (start_time, last_updated) are   *)
(* left out: no operation reads them.                                      *)
(***************************************************************************)
EXTENDS Integers, Sequences, FiniteSets, TLC

\* ------------------------------------------------------------------ bounds
\* Sizes of the inputs and of the environment's interference.
NumDevices == 2
NumDays == 2
MaxRuns == 2
MaxFsEvents == 1
MaxSignals == 3
MaxHandlers == 3
MaxSaveRetries == 4
MaxFetchRetries == 8

\* --------------------------------------------------------- program constants
SecondsPerDay == 86400
\* fetch_device_data(max_retries=5, initial_backoff=1.0), the 60 s sleep cap
FetchMaxRetries == 5
InitialBackoff == 1
BackoffCap == 60
\* create_session: Retry(total=5, status_forcelist=[500, 502, 503, 504])
RetryTotal == 5
StatusForcelist == {500, 502, 503, 504}
\* save_checkpoint(max_retries=3)
SaveMaxRetries == 3
\* ThreadPoolExecutor(max_workers=30)
MaxWorkers == 30

\* ------------------------------------------------------------------ values
None == "None"
AllSerials == <<"A", "B", "C", "D">>
DateStrings ==
    << "d1", "d2", "d3", "d4", "d5", "d6", "d7", "d8", "d9", "d10", "d11", "d12",
       "d13", "d14", "d15", "d16", "d17", "d18", "d19", "d20", "d21", "d22",
       "d23", "d24", "d25", "d26", "d27", "d28", "d29", "d30", "d31", "d32",
       "d33", "d34", "d35" >>
NoFile == [exists |-> FALSE]

Min(a, b) == IF a < b THEN a ELSE b

RECURSIVE Pow2(_)
Pow2(n) == IF n = 0 THEN 1 ELSE 2 * Pow2(n - 1)

\* ------------------------------------------------------------ utils/dates.py
\* get_daily_unix_ranges: one (start_of_day, end_of_day) pair per day, days
\* numbered from day 1 of the epoch in the configured zone.
get_daily_unix_ranges(start_day, end_day) ==
    [i \in 1..(end_day - start_day + 1) |->
        << (start_day + i - 1) * SecondsPerDay,
           (start_day + i - 1) * SecondsPerDay + (SecondsPerDay - 1) >>]

\* datetime.fromtimestamp(start_unix).strftime("%Y-%m-%d"): the calendar day
\* the timestamp falls in, as a string
strftime_date(unix) == DateStrings[unix \div SecondsPerDay]

\* ------------------------------------------- processor/checkpoint_manager.py
\* CheckpointManager.__init__: the empty checkpoint
NewCheckpointData ==
    [current_device_index |-> 0,
     current_device_serial |-> None,
     current_date |-> None,
     completed_devices |-> {},
     completed_dates |-> << >>,
     version |-> "1.0"]

is_device_complete(cp, device_serial) ==
    device_serial \in cp.completed_devices

is_date_complete(cp, device_serial, date) ==
    /\ device_serial \in DOMAIN cp.completed_dates
    /\ date \in cp.completed_dates[device_serial]

\* a variant of lines 118-120 that assigns the device's set anew on each call
AddDate_replacing(cp, device_serial, date) ==
    LET cd == cp.completed_dates
    IN [cp EXCEPT !.completed_dates =
            [s \in DOMAIN cd \cup {device_serial} |->
                IF s = device_serial THEN {date} ELSE cd[s]]]

\* the in-memory part of mark_date_complete (lines 118-120)
AddDate(cp, device_serial, date) ==
    LET cd == cp.completed_dates
        cd0 == IF device_serial \in DOMAIN cd THEN cd
               ELSE [s \in DOMAIN cd \cup {device_serial} |->
                       IF s = device_serial THEN {} ELSE cd[s]]
    IN [cp EXCEPT !.completed_dates =
            [cd0 EXCEPT ![device_serial] = @ \cup {date}]]

\* the in-memory part of mark_device_complete (line 109)
AddDevice(cp, device_serial) ==
    [cp EXCEPT !.completed_devices = @ \cup {device_serial}]

\* the checkpoint_data.update(...) that opens save_checkpoint (lines 50-57)
UpdateCursor(cp, device_index, device_serial, current_date) ==
    [cp EXCEPT !.current_device_index = device_index,
               !.current_device_serial = device_serial,
               !.current_date = current_date]

\* a variant of pickle.dump that leaves the set of completed devices out
Pickle_without_devices(cp) ==
    << cp.current_device_index, cp.current_device_serial, cp.current_date,
       {}, cp.completed_dates, cp.version >>

\* pickle.dump / pickle.load of the checkpoint dict: the file holds the items
\* in the dict's key order; a file is loadable only when it was written whole.
Pickle(cp) ==
    << cp.current_device_index, cp.current_device_serial, cp.current_date,
       cp.completed_devices, cp.completed_dates, cp.version >>

Unpickle(bytes) ==
    [current_device_index |-> bytes[1],
     current_device_serial |-> bytes[2],
     current_date |-> bytes[3],
     completed_devices |-> bytes[4],
     completed_dates |-> bytes[5],
     version |-> bytes[6]]

FileOf(bytes, complete) == [exists |-> TRUE, bytes |-> bytes, complete |-> complete]

Loadable(f) == f.exists /\ f.complete

\* a variant of load_checkpoint that takes over the completed devices and the
\* cursor but not the completed dates
LoadCheckpoint_without_dates(cp, f) ==
    IF ~f.exists THEN cp
    ELSE IF ~f.complete THEN cp
    ELSE [Unpickle(f.bytes) EXCEPT !.completed_dates = cp.completed_dates]

\* load_checkpoint (lines 127-158): a missing file and a file that does not
\* unpickle both leave the in-memory checkpoint as it is
LoadCheckpoint(cp, f) ==
    IF ~f.exists THEN cp
    ELSE IF ~f.complete THEN cp
    ELSE Unpickle(f.bytes)

\* ------------------------------------------------- api/client.py, api/data.py
\* What the remote service answers to the requests for one unit: `status` to
\* each of the first n requests (to all of them when forever), 200 afterwards.
\* Status 0 stands for a request that times out.
Server(status, n, forever) == [status |-> status, n |-> n, forever |-> forever]
Response(b, r) == IF b.forever \/ r <= b.n THEN b.status ELSE 200

NoServer == Server(200, 0, FALSE)

\* session.post over the adapter mounted by create_session: urllib3 resends a
\* timed-out request and one answered with a status of the forcelist while
\* retries are left (total of them after the first request), then raises.
\* r counts the requests sent so far.
RECURSIVE SessionPost(_, _, _)
SessionPost(b, r, total) ==
    LET s == Response(b, r + 1) IN
    IF s = 0 THEN
        IF total = 0 THEN [exc |-> "ConnectionError", status |-> 0, r |-> r + 1]
        ELSE SessionPost(b, r + 1, total - 1)
    ELSE IF s \in StatusForcelist THEN
        IF total = 0 THEN [exc |-> "RetryError", status |-> s, r |-> r + 1]
        ELSE SessionPost(b, r + 1, total - 1)
    ELSE [exc |-> "none", status |-> s, r |-> r + 1]

\* One pass of the try block of fetch_device_data (lines 54-84): does the
\* attempt end in an exception?
AttemptFails(p) ==
    \/ p.exc # "none"
    \/ p.status >= 500
    \/ p.status >= 400          \* response.raise_for_status()

\* a variant of line 110 without the cap
sleep_time_uncapped(backoff, retry_count) == backoff * Pow2(retry_count)

\* line 110: sleep_time = min(backoff * (2**retry_count), 60)
sleep_time(backoff, retry_count) == Min(backoff * Pow2(retry_count), BackoffCap)

\* fetch_device_data (lines 51-115): the while loop, from retry_count on.
\* The result records how the call ended, the session.post calls it made
\* (attempts), the requests that reached the service, and its sleeps.
RECURSIVE FetchLoop(_, _, _, _, _, _)
FetchLoop(b, max_retries, backoff, retry_count, r, sleeps) ==
    IF retry_count >= max_retries
    THEN [outcome |-> "none", attempts |-> retry_count, requests |-> r,
          sleeps |-> sleeps]
    ELSE LET p == SessionPost(b, r, RetryTotal) IN
         IF ~AttemptFails(p)
         THEN [outcome |-> "payload", attempts |-> retry_count + 1,
               requests |-> p.r, sleeps |-> sleeps]
         ELSE IF retry_count = max_retries - 1
         THEN [outcome |-> "raise", attempts |-> retry_count + 1,
               requests |-> p.r, sleeps |-> sleeps]
         ELSE FetchLoop(b, max_retries, backoff, retry_count + 1, p.r,
                        Append(sleeps, sleep_time(backoff, retry_count)))

NoResult == [outcome |-> "pending", attempts |-> 0, requests |-> 0, sleeps |-> << >>]

\* a variant that makes one attempt and raises when it fails
fetch_device_data_without_retry(b, max_retries, initial_backoff) ==
    FetchLoop(b, 1, initial_backoff, 0, 0, << >>)

fetch_device_data(b, max_retries, initial_backoff) ==
    FetchLoop(b, max_retries, initial_backoff, 0, 0, << >>)

\* ---------------------------------------------------- processor/processor.py
\* a variant of _get_remaining_devices that does not consult the checkpoint
get_remaining_devices_unfiltered(cp, device_ids) == device_ids

\* _get_remaining_devices (lines 144-153)
get_remaining_devices(cp, device_ids) ==
    SelectSeq(device_ids, LAMBDA s : ~is_device_complete(cp, s))

\* a variant of _get_remaining_dates that does not consult the checkpoint
get_remaining_dates_unfiltered(cp, device_serial, ranges) == ranges

\* _get_remaining_dates (lines 155-170)
get_remaining_dates(cp, device_serial, ranges) ==
    SelectSeq(ranges,
              LAMBDA rg : ~is_date_complete(cp, device_serial, strftime_date(rg[1])))

\* The pool of line 256. A submitted task waits in the executor's work queue
\* and is taken, in the order of submission, by one of at most max_workers
\* threads: as soon as a thread is free, the oldest waiting task runs.
RunningIn(t) == { i \in 1..Len(t) : t[i].st = "running" }
QueuedIn(t) == { i \in 1..Len(t) : t[i].st = "submitted" }

\* a variant of the pool that starts a thread for every waiting task
RECURSIVE StartQueued_unbounded(_)
StartQueued_unbounded(t) ==
    IF QueuedIn(t) = {} THEN t
    ELSE LET i == CHOOSE j \in QueuedIn(t) : \A k \in QueuedIn(t) : j <= k
         IN StartQueued_unbounded([t EXCEPT ![i].st = "running"])

RECURSIVE StartQueued(_)
StartQueued(t) ==
    IF QueuedIn(t) = {} \/ Cardinality(RunningIn(t)) >= MaxWorkers THEN t
    ELSE LET i == CHOOSE j \in QueuedIn(t) : \A k \in QueuedIn(t) : j <= k
         IN StartQueued([t EXCEPT ![i].st = "running"])

\* a variant of line 255 that keeps one queue for the whole run
NewQueue_shared(q) == q

\* line 255, result_queue = Queue(): each device's iteration has its own
\* queue, which starts empty; the one before it, q, is dropped
NewQueue(q) == << >>

\* task_args (lines 244-252) as the pool's task table: one entry per remaining
\* date, not yet submitted
TaskTable(device_serial, dates, index) ==
    [i \in 1..Len(dates) |->
        [args |-> << device_serial, dates[i][1], dates[i][2], index >>,
         st |-> "new",
         server |-> NoServer,
         res |-> NoResult]]

VARIABLES
    \* the inputs of the process and its environment
    device_map,             \* the registry's serials, in order
    date_ranges,            \* DeviceDataProcessor.date_ranges
    api,                    \* the behaviours the remote service may show
    fs,                     \* the file system: "ok", "locked" (rename is refused), "full"
    fs_events,              \* changes of fs so far
    runs,                   \* processes started so far
    last_exit,              \* how the process before this one ended
    sink,                   \* the payloads handed on to a consumer, in order
    \* shutdown/shutdown_controller.py
    cleanup_handlers,       \* _cleanup_handlers: per handler, whether it raises
    handler_log,            \* the handlers called so far, by position, in order
    signals,                \* SIGINT/SIGTERM deliveries to this process
    \* signal_handler/signal_handler.py
    signal_handler_shutdown_requested,  \* the module's global shutdown_requested
    handle_signal_pc,       \* where handle_signal is: "none", "sleep", "exited"
    \* the checkpoint directory
    file,                   \* the file at checkpoint_file_path
    stray_temps,            \* checkpoint_*.tmp files no process will delete
    \* the process
    pc,                     \* where the coordinator (main thread) is
    shutdown_requested,     \* shutdown_controller._shutdown_requested
    checkpoint_data,        \* CheckpointManager.checkpoint_data
    temp_path,              \* save_checkpoint: the temporary file of this attempt
    attempt,                \* save_checkpoint: the loop variable
    ret,                    \* save_checkpoint: who called it
    save_max_retries,       \* save_checkpoint: the parameter max_retries
    save_sleeps,            \* save_checkpoint: its time.sleep calls, in retry_delay
    remaining_devices, dev_pos, device_index, device_serial, start_date_str,
    remaining_dates, completed_all_dates, days_processed,
    task,                   \* task_args, and a future per submitted task
    n_futures, fut_i,       \* len(futures), position of `for future in futures`
    result_queue,
    exc,                    \* an exception is leaving the with block
    processed_devices, progress_devices, total_progress_devices,
    \* what happened in this run (history)
    loaded,                 \* checkpoint_data as load_checkpoint left it
    submitted,              \* the (device, date) units submitted, in order
    fetched,                \* units whose fetch returned in this run, with the result
    save_failed,            \* a save_checkpoint call raised in this run
    \* history across runs
    acked                   \* units for which mark_date_complete has returned

inputVars == << device_map, date_ranges, api, fs, fs_events, runs, last_exit, sink >>
sigVars == << cleanup_handlers, handler_log, signals >>
handlerVars == << signal_handler_shutdown_requested, handle_signal_pc >>
envVars == << inputVars, sigVars, handlerVars >>
dirVars == << file, stray_temps >>
saveVars == << temp_path, attempt, ret, save_max_retries, save_sleeps >>
loopVars == << remaining_devices, dev_pos, device_index, device_serial,
               start_date_str, remaining_dates, completed_all_dates,
               days_processed, n_futures, fut_i, processed_devices,
               progress_devices, total_progress_devices >>
poolVars == << task, result_queue >>
histVars == << loaded, submitted, fetched, save_failed, acked >>
vars == << envVars, dirVars, saveVars, loopVars, poolVars, histVars,
           pc, shutdown_requested, checkpoint_data, exc >>

\* A freshly started process: DeviceDataProcessor.__init__ has run
\* (checkpoint = CheckpointManager(path)), run() has not.
FreshProcess ==
    /\ pc = "start"
    /\ shutdown_requested = FALSE
    /\ cleanup_handlers = << >>
    /\ handler_log = << >>
    /\ signals = 0
    /\ signal_handler_shutdown_requested = FALSE
    /\ handle_signal_pc = "none"
    /\ checkpoint_data = NewCheckpointData
    /\ temp_path = NoFile
    /\ attempt = 0
    /\ ret = None
    /\ save_max_retries = SaveMaxRetries
    /\ save_sleeps = << >>
    /\ remaining_devices = << >>
    /\ dev_pos = 0
    /\ device_index = 0
    /\ device_serial = None
    /\ start_date_str = None
    /\ remaining_dates = << >>
    /\ completed_all_dates = TRUE
    /\ days_processed = 0
    /\ task = << >>
    /\ n_futures = 0
    /\ fut_i = 0
    /\ result_queue = << >>
    /\ exc = FALSE
    /\ processed_devices = 0
    /\ progress_devices = << >>
    /\ total_progress_devices = << >>
    /\ loaded = NewCheckpointData
    /\ submitted = << >>
    /\ fetched = {}
    /\ save_failed = FALSE

\* The service answers at once, refuses the unit (404), or is down (503).
ApiPlain == { Server(200, 0, FALSE), Server(404, 0, TRUE) }

Init ==
    /\ device_map = SubSeq(AllSerials, 1, NumDevices)
    /\ date_ranges = get_daily_unix_ranges(1, NumDays)
    /\ api = ApiPlain
    /\ fs = "ok"
    /\ fs_events = 0
    /\ runs = 1
    /\ last_exit = None
    /\ sink = << >>
    /\ file = NoFile
    /\ stray_temps = 0
    /\ acked = {}
    /\ FreshProcess

Alive == pc \notin {"done", "raised", "crashed"}

Finished(t) == t.st \in {"done", "failed"}

\* ------------------------------------------------------------ run(), by step
\* lines 197-210: load the checkpoint, list the remaining devices
RunStart ==
    /\ pc = "start"
    /\ checkpoint_data' = LoadCheckpoint(checkpoint_data, file)
    /\ loaded' = checkpoint_data'
    /\ remaining_devices' = get_remaining_devices(checkpoint_data', device_map)
    /\ dev_pos' = 0
    /\ pc' = "device"
    /\ UNCHANGED << envVars, dirVars, saveVars, poolVars, shutdown_requested, exc,
                    device_index, device_serial, start_date_str, remaining_dates,
                    completed_all_dates, days_processed, n_futures, fut_i,
                    processed_devices, progress_devices, total_progress_devices,
                    submitted, fetched, save_failed, acked >>

\* a variant of the head of the device loop that raises when it finds the
\* shutdown flag set, which the outer handler turns into
\* DeviceDataProcessorError
NextDevice_raising_on_shutdown ==
    /\ pc = "device"
    /\ IF shutdown_requested
       THEN /\ pc' = "raised"
            /\ UNCHANGED << device_index, device_serial, completed_all_dates,
                            remaining_dates, days_processed, task, result_queue,
                            n_futures, fut_i >>
       ELSE IF dev_pos >= Len(remaining_devices)
       THEN /\ pc' = "done"
            /\ UNCHANGED << device_index, device_serial, completed_all_dates,
                            remaining_dates, days_processed, task, result_queue,
                            n_futures, fut_i >>
       ELSE /\ device_index' = dev_pos
            /\ device_serial' = remaining_devices[dev_pos + 1]
            /\ completed_all_dates' = TRUE
            /\ remaining_dates' =
                   get_remaining_dates(checkpoint_data, device_serial', date_ranges)
            /\ days_processed' = 0
            /\ task' = TaskTable(device_serial', remaining_dates', device_index')
            /\ result_queue' = NewQueue(result_queue)
            /\ n_futures' = 0
            /\ fut_i' = 1
            /\ pc' = "submit"
    /\ UNCHANGED << envVars, dirVars, saveVars, histVars, shutdown_requested,
                    checkpoint_data, exc, remaining_devices, dev_pos,
                    start_date_str, processed_devices, progress_devices,
                    total_progress_devices >>

\* line 221 and lines 223-255: the next remaining device, its remaining dates
\* and task_args; or the end of the loop and of run() (lines 317, 322-336)
NextDevice ==
    /\ pc = "device"
    /\ IF dev_pos >= Len(remaining_devices)
       THEN /\ pc' = "done"
            /\ UNCHANGED << device_index, device_serial, completed_all_dates,
                            remaining_dates, days_processed, task, result_queue,
                            n_futures, fut_i >>
       ELSE /\ device_index' = dev_pos
            /\ device_serial' = remaining_devices[dev_pos + 1]
            /\ completed_all_dates' = TRUE
            /\ remaining_dates' =
                   get_remaining_dates(checkpoint_data, device_serial', date_ranges)
            /\ days_processed' = 0
            /\ task' = TaskTable(device_serial', remaining_dates', device_index')
            /\ result_queue' = NewQueue(result_queue)
            /\ n_futures' = 0
            /\ fut_i' = 1
            /\ pc' = "submit"
    /\ UNCHANGED << envVars, dirVars, saveVars, histVars, shutdown_requested,
                    checkpoint_data, exc, remaining_devices, dev_pos,
                    start_date_str, processed_devices, progress_devices,
                    total_progress_devices >>

\* a variant of lines 258-265 without the check of line 259
Submit_unchecked ==
    /\ pc = "submit"
    /\ IF n_futures = Len(task)
       THEN /\ pc' = "futures"
            /\ UNCHANGED << task, n_futures, submitted >>
       ELSE /\ task' = StartQueued([task EXCEPT ![n_futures + 1].st = "submitted"])
            /\ n_futures' = n_futures + 1
            /\ submitted' = Append(submitted,
                   << task[n_futures + 1].args[1],
                      strftime_date(task[n_futures + 1].args[2]) >>)
            /\ pc' = "submit"
    /\ UNCHANGED << envVars, dirVars, saveVars, shutdown_requested, checkpoint_data,
                    exc, remaining_devices, dev_pos, device_index, device_serial,
                    start_date_str, remaining_dates, days_processed, fut_i,
                    processed_devices, progress_devices, total_progress_devices,
                    result_queue, loaded, fetched, save_failed, acked,
                    completed_all_dates >>

\* lines 258-265: one pass of `for args in task_args`
Submit ==
    /\ pc = "submit"
    /\ IF n_futures = Len(task)
       THEN /\ pc' = "futures"
            /\ UNCHANGED << completed_all_dates, task, n_futures, submitted >>
       ELSE IF shutdown_requested
       THEN /\ completed_all_dates' = FALSE
            /\ pc' = "futures"
            /\ UNCHANGED << task, n_futures, submitted >>
       ELSE /\ task' = StartQueued([task EXCEPT ![n_futures + 1].st = "submitted"])
            /\ n_futures' = n_futures + 1
            /\ submitted' = Append(submitted,
                   << task[n_futures + 1].args[1],
                      strftime_date(task[n_futures + 1].args[2]) >>)
            /\ pc' = "submit"
            /\ UNCHANGED completed_all_dates
    /\ UNCHANGED << envVars, dirVars, saveVars, shutdown_requested, checkpoint_data,
                    exc, remaining_devices, dev_pos, device_index, device_serial,
                    start_date_str, remaining_dates, days_processed, fut_i,
                    processed_devices, progress_devices, total_progress_devices,
                    result_queue, loaded, fetched, save_failed, acked >>

\* a variant of process_date that puts its result on the queue in a finally
\* clause, whether the fetch returned or raised
process_date_always_put(i, b) ==
    LET args == task[i].args
        res == fetch_device_data(b, FetchMaxRetries, InitialBackoff)
    IN /\ task' = StartQueued(
                      [task EXCEPT ![i].st = IF res.outcome = "raise" THEN "failed"
                                             ELSE "done",
                                   ![i].server = b, ![i].res = res])
       /\ result_queue' = Append(result_queue,
              << args[1], strftime_date(args[2]), args[4] >>)
       /\ fetched' = fetched \cup
              {[unit |-> << args[1], strftime_date(args[2]) >>,
                server |-> b, res |-> res]}

\* process_date (lines 172-187) in a pool thread, against a service that
\* behaves as b: the fetch, whose return value is dropped, then the put of
\* (device_serial, start_date_str, device_index) on the result queue
process_date(i, b) ==
    LET args == task[i].args
        res == fetch_device_data(b, FetchMaxRetries, InitialBackoff)
    IN /\ IF res.outcome = "raise"
          THEN /\ task' = StartQueued([task EXCEPT ![i].st = "failed",
                                                   ![i].server = b, ![i].res = res])
               /\ UNCHANGED result_queue
          ELSE /\ task' = StartQueued([task EXCEPT ![i].st = "done",
                                                   ![i].server = b, ![i].res = res])
               /\ result_queue' = Append(result_queue,
                      << args[1], strftime_date(args[2]), args[4] >>)
       /\ fetched' = fetched \cup
              {[unit |-> << args[1], strftime_date(args[2]) >>,
                server |-> b, res |-> res]}

\* a running task goes through process_date and ends; the thread it frees
\* takes the oldest waiting task
Running == RunningIn(task)
Queued == QueuedIn(task)

\* a variant in which the pool thread marks its unit complete itself, in
\* memory and in the file, instead of putting it on the queue
Worker_marks ==
    /\ Alive
    /\ \E i \in Running : \E b \in api :
         LET args == task[i].args
             res == fetch_device_data(b, FetchMaxRetries, InitialBackoff)
             ok == res.outcome # "raise"
         IN /\ task' = StartQueued([task EXCEPT ![i].st = IF ok THEN "done" ELSE "failed",
                                                 ![i].server = b, ![i].res = res])
            /\ fetched' = fetched \cup
                   {[unit |-> << args[1], strftime_date(args[2]) >>,
                     server |-> b, res |-> res]}
            /\ checkpoint_data' =
                   IF ok THEN AddDate(checkpoint_data, args[1], strftime_date(args[2]))
                   ELSE checkpoint_data
            /\ file' = IF ok THEN FileOf(Pickle(checkpoint_data'), TRUE) ELSE file
    /\ UNCHANGED << envVars, stray_temps, saveVars, loopVars, pc, shutdown_requested,
                    exc, loaded, submitted, save_failed, acked, result_queue >>

Worker ==
    /\ Alive
    /\ \E i \in Running :
         \E b \in api : process_date(i, b)
    /\ UNCHANGED << envVars, dirVars, saveVars, loopVars, pc, shutdown_requested,
                    checkpoint_data, exc, loaded, submitted, save_failed, acked >>

\* lines 267-270: the head of `for future in futures`
FutureCheck ==
    /\ pc = "futures"
    /\ IF fut_i > n_futures
       THEN /\ pc' = "join"
            /\ UNCHANGED completed_all_dates
       ELSE IF shutdown_requested
       THEN /\ completed_all_dates' = FALSE
            /\ pc' = "join"
       ELSE /\ pc' = "result"
            /\ UNCHANGED completed_all_dates
    /\ UNCHANGED << envVars, dirVars, saveVars, poolVars, histVars,
                    shutdown_requested, checkpoint_data, exc, remaining_devices,
                    dev_pos, device_index, device_serial, start_date_str,
                    remaining_dates, days_processed, n_futures, fut_i,
                    processed_devices, progress_devices, total_progress_devices >>

\* lines 272-274: future.result() returns or raises once the task has ended
FutureResult ==
    /\ pc = "result"
    /\ Finished(task[fut_i])
    /\ IF task[fut_i].st = "failed"
       THEN /\ exc' = TRUE
            /\ pc' = "join"
            /\ UNCHANGED days_processed
       ELSE /\ days_processed' = days_processed + 1
            /\ pc' = "drain"
            /\ UNCHANGED exc
    /\ UNCHANGED << envVars, dirVars, saveVars, poolVars, histVars,
                    shutdown_requested, checkpoint_data, remaining_devices,
                    dev_pos, device_index, device_serial, start_date_str,
                    remaining_dates, completed_all_dates, n_futures, fut_i,
                    processed_devices, progress_devices, total_progress_devices >>

\* ------------------------------------------------ save_checkpoint, by step
\* A call of save_checkpoint (lines 36-63): the cursor update, then the first
\* attempt. caller is where the call returns to.
BeginSave(cp, index, serial, date, caller) ==
    /\ checkpoint_data' = UpdateCursor(cp, index, serial, date)
    /\ attempt' = 0
    /\ temp_path' = NoFile
    /\ ret' = caller
    /\ save_max_retries' = SaveMaxRetries
    /\ save_sleeps' = << >>
    /\ pc' = "save_open"
    /\ UNCHANGED << exc, dev_pos, processed_devices, acked, save_failed >>

\* save_checkpoint returns (line 83) to its caller: mark_date_complete returns
\* to line 283, the save of line 283 to the drain loop, mark_device_complete
\* to lines 313-315 and the next device
SaveReturns ==
    /\ IF ret = "mark_date_complete"
       THEN /\ acked' = acked \cup {<< device_serial, start_date_str >>}
            /\ pc' = "run_save"
            /\ UNCHANGED << dev_pos, processed_devices >>
       ELSE IF ret = "save_checkpoint"
       THEN /\ pc' = "drain"
            /\ UNCHANGED << acked, dev_pos, processed_devices >>
       ELSE IF ret = None
       THEN /\ pc' = "save_returned"
            /\ UNCHANGED << acked, dev_pos, processed_devices >>
       ELSE /\ processed_devices' = processed_devices + 1
            /\ dev_pos' = dev_pos + 1
            /\ pc' = "device"
            /\ UNCHANGED acked
    /\ UNCHANGED << exc, save_failed >>

\* save_checkpoint raises (line 102): inside the with block the exception
\* leaves it (line 287); from mark_device_complete (line 312) it ends run()
\* with DeviceDataProcessorError (lines 319-321)
SaveRaises ==
    /\ save_failed' = TRUE
    /\ IF ret = "mark_device_complete"
       THEN /\ pc' = "raised"
            /\ UNCHANGED exc
       ELSE IF ret = None
       THEN /\ pc' = "save_raised"
            /\ UNCHANGED exc
       ELSE /\ exc' = TRUE
            /\ pc' = "join"
    /\ UNCHANGED << acked, dev_pos, processed_devices >>

\* a variant of lines 64 and 91-102 that tries until an attempt succeeds
\* (while True in place of the bounded for)
AttemptFailed_without_bound ==
    /\ temp_path' = NoFile
    /\ pc' = "save_open"
    /\ UNCHANGED << attempt, exc, dev_pos, processed_devices, acked, save_failed >>

\* a variant of lines 91-102 that re-raises one attempt later
AttemptFailed_one_more ==
    /\ temp_path' = NoFile
    /\ IF attempt = save_max_retries
       THEN /\ SaveRaises
            /\ UNCHANGED attempt
       ELSE /\ attempt' = attempt + 1
            /\ pc' = "save_open"
            /\ UNCHANGED << exc, dev_pos, processed_devices, acked, save_failed >>

\* lines 91-102: an attempt ended in an exception and its temporary file, if
\* any, is deleted; the last attempt re-raises, another one follows otherwise
AttemptFailed ==
    /\ temp_path' = NoFile
    /\ IF attempt = save_max_retries - 1
       THEN /\ SaveRaises
            /\ UNCHANGED attempt
       ELSE /\ attempt' = attempt + 1
            /\ pc' = "save_open"
            /\ UNCHANGED << exc, dev_pos, processed_devices, acked, save_failed >>

\* a variant of lines 64-75 that opens the target itself for writing
SaveOpen_in_place ==
    /\ pc = "save_open"
    /\ temp_path' = FileOf(<< >>, FALSE)
    /\ file' = FileOf(<< >>, FALSE)
    /\ pc' = "save_dump"
    /\ UNCHANGED << envVars, stray_temps, loopVars, poolVars, histVars, attempt, ret,
                    save_max_retries, save_sleeps, shutdown_requested,
                    checkpoint_data, exc >>

\* lines 64-75: the temporary file is created, empty, beside the target
SaveOpen ==
    /\ pc = "save_open"
    /\ temp_path' = FileOf(<< >>, FALSE)
    /\ pc' = "save_dump"
    /\ UNCHANGED << envVars, dirVars, loopVars, poolVars, histVars, attempt, ret,
                    save_max_retries, save_sleeps, shutdown_requested,
                    checkpoint_data, exc >>

\* lines 76-78: dump, flush, fsync; on a full disk the write raises
SaveDump ==
    /\ pc = "save_dump"
    /\ IF fs = "full"
       THEN AttemptFailed
       ELSE /\ temp_path' = FileOf(Pickle(checkpoint_data), TRUE)
            /\ pc' = "save_replace"
            /\ UNCHANGED << attempt, exc, dev_pos, processed_devices, acked,
                            save_failed >>
    /\ UNCHANGED << envVars, dirVars, poolVars, ret, save_max_retries, save_sleeps,
                    shutdown_requested, checkpoint_data, remaining_devices, device_index,
                    device_serial, start_date_str, remaining_dates,
                    completed_all_dates, days_processed, n_futures, fut_i,
                    progress_devices, total_progress_devices, loaded, submitted,
                    fetched >>

\* lines 81-89: temp_path.replace(file). A refused rename (PermissionError) is
\* slept on and followed by the next attempt, whose temp_path starts as None;
\* on the last attempt it is re-raised to the handler of lines 91-102.
SaveReplace ==
    /\ pc = "save_replace"
    /\ IF fs # "locked"
       THEN /\ file' = temp_path
            /\ temp_path' = NoFile
            /\ SaveReturns
            /\ UNCHANGED << attempt, stray_temps, save_sleeps >>
       ELSE IF attempt < save_max_retries - 1
       THEN /\ save_sleeps' = Append(save_sleeps, Pow2(attempt))
            /\ stray_temps' = stray_temps + 1
            /\ temp_path' = NoFile
            /\ attempt' = attempt + 1
            /\ pc' = "save_open"
            /\ UNCHANGED << file, exc, dev_pos, processed_devices, acked,
                            save_failed >>
       ELSE /\ AttemptFailed
            /\ UNCHANGED << file, stray_temps, save_sleeps >>
    /\ UNCHANGED << envVars, poolVars, ret, save_max_retries, shutdown_requested,
                    checkpoint_data,
                    remaining_devices, device_index, device_serial,
                    start_date_str, remaining_dates, completed_all_dates,
                    days_processed, n_futures, fut_i, progress_devices,
                    total_progress_devices, loaded, submitted, fetched >>

\* a variant of mark_date_complete that returns without saving
mark_date_complete_unsaved(serial, date) ==
    /\ checkpoint_data' = AddDate(checkpoint_data, serial, date)
    /\ attempt' = 0
    /\ temp_path' = NoFile
    /\ ret' = "mark_date_complete"
    /\ acked' = acked \cup {<< serial, date >>}
    /\ pc' = "run_save"
    /\ UNCHANGED << exc, dev_pos, processed_devices, save_failed,
                    save_max_retries, save_sleeps >>

\* mark_date_complete (lines 116-125), called by caller
MarkDate(serial, date, caller) ==
    LET cp == AddDate(checkpoint_data, serial, date) IN
    BeginSave(cp, cp.current_device_index, cp.current_device_serial,
              cp.current_date, caller)

\* mark_date_complete as run() calls it
mark_date_complete(serial, date) == MarkDate(serial, date, "mark_date_complete")

\* mark_device_complete (lines 107-114), called by caller
MarkDevice(serial, caller) ==
    LET cp == AddDevice(checkpoint_data, serial) IN
    BeginSave(cp, cp.current_device_index, cp.current_device_serial,
              cp.current_date, caller)

\* mark_device_complete as run() calls it
mark_device_complete(serial) == MarkDevice(serial, "mark_device_complete")

\* lines 276-282: one pass of the drain loop up to the call of
\* mark_date_complete; the loop's targets rebind device_serial and
\* device_index. With the queue empty, the next future.
Drain ==
    /\ pc = "drain"
    /\ IF result_queue = << >>
       THEN /\ fut_i' = fut_i + 1
            /\ pc' = "futures"
            /\ UNCHANGED << result_queue, device_serial, start_date_str,
                            device_index, checkpoint_data, saveVars, exc, dev_pos,
                            processed_devices, acked, save_failed >>
       ELSE /\ device_serial' = Head(result_queue)[1]
            /\ start_date_str' = Head(result_queue)[2]
            /\ device_index' = Head(result_queue)[3]
            /\ result_queue' = Tail(result_queue)
            /\ mark_date_complete(device_serial', start_date_str')
            /\ UNCHANGED fut_i
    /\ UNCHANGED << envVars, dirVars, task, shutdown_requested, remaining_devices,
                    remaining_dates, completed_all_dates, days_processed,
                    n_futures, progress_devices, total_progress_devices, loaded,
                    submitted, fetched >>

\* lines 283-285: the save_checkpoint call of the drain loop
RunSave ==
    /\ pc = "run_save"
    /\ BeginSave(checkpoint_data, device_index, device_serial, start_date_str,
                 "save_checkpoint")
    /\ UNCHANGED << envVars, dirVars, poolVars, shutdown_requested,
                    remaining_devices, device_index, device_serial,
                    start_date_str, remaining_dates, completed_all_dates,
                    days_processed, n_futures, fut_i, progress_devices,
                    total_progress_devices, loaded, submitted, fetched >>

\* a variant of the end of the with block that does not wait for the tasks
\* (executor.shutdown(wait=False))
Join_without_wait ==
    /\ pc = "join"
    /\ completed_all_dates' = IF exc THEN FALSE ELSE completed_all_dates
    /\ exc' = FALSE
    /\ pc' = "progress"
    /\ UNCHANGED << envVars, dirVars, saveVars, poolVars, histVars,
                    shutdown_requested, checkpoint_data, remaining_devices,
                    dev_pos, device_index, device_serial, start_date_str,
                    remaining_dates, days_processed, n_futures, fut_i,
                    processed_devices, progress_devices, total_progress_devices >>

\* a variant of the end of the with block whose handler re-raises, so that
\* the exception of a failed task reaches the outer handler (lines 319-321)
Join_reraising ==
    /\ pc = "join"
    /\ \A i \in 1..n_futures : Finished(task[i])
    /\ completed_all_dates' = IF exc THEN FALSE ELSE completed_all_dates
    /\ exc' = FALSE
    /\ pc' = IF exc THEN "raised" ELSE "progress"
    /\ UNCHANGED << envVars, dirVars, saveVars, poolVars, histVars,
                    shutdown_requested, checkpoint_data, remaining_devices,
                    dev_pos, device_index, device_serial, start_date_str,
                    remaining_dates, days_processed, n_futures, fut_i,
                    processed_devices, progress_devices, total_progress_devices >>

\* a variant of the end of the with block without line 288
Join_without_except ==
    /\ pc = "join"
    /\ \A i \in 1..n_futures : Finished(task[i])
    /\ exc' = FALSE
    /\ pc' = "progress"
    /\ UNCHANGED << envVars, dirVars, saveVars, poolVars, histVars,
                    shutdown_requested, checkpoint_data, remaining_devices,
                    dev_pos, device_index, device_serial, start_date_str,
                    remaining_dates, completed_all_dates, days_processed,
                    n_futures, fut_i, processed_devices, progress_devices,
                    total_progress_devices >>

\* line 256, the end of the with block: ThreadPoolExecutor.__exit__ waits for
\* every submitted task; then line 288 if an exception is leaving the block
Join ==
    /\ pc = "join"
    /\ \A i \in 1..n_futures : Finished(task[i])
    /\ completed_all_dates' = IF exc THEN FALSE ELSE completed_all_dates
    /\ exc' = FALSE
    /\ pc' = "progress"
    /\ UNCHANGED << envVars, dirVars, saveVars, poolVars, histVars,
                    shutdown_requested, checkpoint_data, remaining_devices,
                    dev_pos, device_index, device_serial, start_date_str,
                    remaining_dates, days_processed, n_futures, fut_i,
                    processed_devices, progress_devices, total_progress_devices >>

\* dict[key] = value, del dict[key]
DictSet(d, k, v) == [x \in DOMAIN d \cup {k} |-> IF x = k THEN v ELSE d[x]]
DictDel(d, k) == [x \in DOMAIN d \ {k} |-> d[x]]

\* lines 291-315: the progress bookkeeping, then mark_device_complete or the
\* next device
Progress ==
    /\ pc = "progress"
    /\ LET pre_processed_days == Len(date_ranges) - Len(remaining_dates)
           record == /\ ~completed_all_dates
                     /\ Len(remaining_dates) > days_processed
                     /\ days_processed > 0
           p1 == IF record THEN DictSet(progress_devices, device_serial, days_processed)
                 ELSE progress_devices
           t1 == IF record
                 THEN DictSet(total_progress_devices, device_serial,
                              days_processed + pre_processed_days)
                 ELSE total_progress_devices
           forget == /\ ~completed_all_dates
                     /\ days_processed > 0
                     /\ days_processed = Len(remaining_dates)
                     /\ device_serial \in DOMAIN p1
       IN /\ progress_devices' = IF forget THEN DictDel(p1, device_serial) ELSE p1
          /\ total_progress_devices' =
                 IF forget THEN DictDel(t1, device_serial) ELSE t1
    /\ IF completed_all_dates
       THEN mark_device_complete(device_serial)
       ELSE /\ dev_pos' = dev_pos + 1
            /\ pc' = "device"
            /\ UNCHANGED << checkpoint_data, saveVars, exc, processed_devices,
                            acked, save_failed >>
    /\ UNCHANGED << envVars, dirVars, poolVars, shutdown_requested,
                    remaining_devices, device_index, device_serial,
                    start_date_str, remaining_dates, completed_all_dates,
                    days_processed, n_futures, fut_i, loaded, submitted, fetched >>

\* ------------------------------------------------------------ environment
\* a variant of lines 33-37 without the try: the first handler that raises
\* ends the loop
RunHandlers_uncaught(hs) ==
    LET raising == { k \in 1..Len(hs) : hs[k] = "raises" }
        last == IF raising = {} THEN Len(hs)
                ELSE CHOOSE k \in raising : \A j \in raising : k <= j
    IN [k \in 1..last |-> k]

\* lines 33-37: every registered handler is called, in the order of
\* registration; an exception of one is printed and the loop goes on
RunHandlers(hs) == [k \in 1..Len(hs) |-> k]

\* register_cleanup_handler (lines 23-25); h says how the handler behaves
register_cleanup_handler(h) ==
    /\ Len(cleanup_handlers) < MaxHandlers
    /\ cleanup_handlers' = Append(cleanup_handlers, h)
    /\ UNCHANGED << handler_log, signals, shutdown_requested >>

\* shutdown_controller._trigger_shutdown (lines 28-37), the handler of SIGINT
\* and SIGTERM, on one delivery
trigger_shutdown ==
    /\ signals' = signals + 1
    /\ IF ~shutdown_requested
       THEN /\ shutdown_requested' = TRUE
            /\ handler_log' = handler_log \o RunHandlers(cleanup_handlers)
       ELSE UNCHANGED << shutdown_requested, handler_log >>
    /\ UNCHANGED cleanup_handlers

\* the first signal a running process gets (later ones change nothing)
TriggerShutdown ==
    /\ Alive
    /\ ~shutdown_requested
    /\ trigger_shutdown
    /\ UNCHANGED << inputVars, handlerVars, dirVars, saveVars, loopVars, poolVars,
                    histVars, pc, checkpoint_data, exc >>

\* the controller alone: handlers are registered and signals delivered, any
\* number of times, before run() is called
RegisterHandler ==
    /\ \E h \in {"returns", "raises"} : register_cleanup_handler(h)
    /\ UNCHANGED << inputVars, handlerVars, dirVars, saveVars, loopVars, poolVars,
                    histVars, pc, checkpoint_data, exc >>

Signal ==
    /\ signals < MaxSignals
    /\ trigger_shutdown
    /\ UNCHANGED << inputVars, handlerVars, dirVars, saveVars, loopVars, poolVars,
                    histVars, pc, checkpoint_data, exc >>

\* The file system starts or stops refusing renames or writes.
FsChange ==
    /\ Alive
    /\ fs_events < MaxFsEvents
    /\ \E m \in {"ok", "locked", "full"} \ {fs} : fs' = m
    /\ fs_events' = fs_events + 1
    /\ UNCHANGED << device_map, date_ranges, api, runs, last_exit, sink, sigVars,
                    handlerVars, dirVars, saveVars, loopVars, poolVars, histVars, pc,
                    shutdown_requested, checkpoint_data, exc >>

\* What a process start resets: everything but the checkpoint directory.
ProcessReset ==
    /\ shutdown_requested' = FALSE
    /\ cleanup_handlers' = << >>
    /\ handler_log' = << >>
    /\ signals' = 0
    /\ signal_handler_shutdown_requested' = FALSE
    /\ handle_signal_pc' = "none"
    /\ checkpoint_data' = NewCheckpointData
    /\ temp_path' = NoFile
    /\ attempt' = 0
    /\ ret' = None
    /\ save_max_retries' = SaveMaxRetries
    /\ save_sleeps' = << >>
    /\ remaining_devices' = << >>
    /\ dev_pos' = 0
    /\ device_index' = 0
    /\ device_serial' = None
    /\ start_date_str' = None
    /\ remaining_dates' = << >>
    /\ completed_all_dates' = TRUE
    /\ days_processed' = 0
    /\ task' = << >>
    /\ n_futures' = 0
    /\ fut_i' = 0
    /\ result_queue' = << >>
    /\ exc' = FALSE
    /\ processed_devices' = 0
    /\ progress_devices' = << >>
    /\ total_progress_devices' = << >>
    /\ loaded' = NewCheckpointData
    /\ submitted' = << >>
    /\ fetched' = {}
    /\ save_failed' = FALSE

\* The process is killed: its memory and threads are gone, the files stay as
\* they are, the temporary file of a save in progress included.
Crash ==
    /\ Alive
    /\ pc' = "crashed"
    /\ stray_temps' = stray_temps + (IF temp_path.exists THEN 1 ELSE 0)
    /\ ProcessReset
    /\ UNCHANGED << inputVars, file, acked >>

\* A new process on the same checkpoint path (main: construct, then run())
Restart ==
    /\ ~Alive
    /\ runs < MaxRuns
    /\ runs' = runs + 1
    /\ last_exit' = IF pc = "crashed" THEN "killed"
                    ELSE IF pc = "raised" THEN "raised"
                    ELSE IF shutdown_requested THEN "cancelled"
                    ELSE "returned"
    /\ pc' = "start"
    /\ ProcessReset
    /\ UNCHANGED << device_map, date_ranges, api, fs, fs_events, sink, dirVars, acked >>

Next ==
    \/ RunStart
    \/ NextDevice
    \/ Submit
    \/ Worker
    \/ FutureCheck
    \/ FutureResult
    \/ Drain
    \/ RunSave
    \/ SaveOpen
    \/ SaveDump
    \/ SaveReplace
    \/ Join
    \/ Progress
    \/ TriggerShutdown
    \/ FsChange
    \/ Crash
    \/ Restart

Spec == Init /\ [][Next]_vars

\* The resume scenario: devices A and B, three days, a file system that works and a
\* process that ends only by returning from run(); shutdown signals and
\* failing fetches as before.
InitScenario ==
    /\ device_map = << "A", "B" >>
    /\ date_ranges = get_daily_unix_ranges(1, 3)
    /\ api = ApiPlain
    /\ fs = "ok"
    /\ fs_events = 0
    /\ runs = 1
    /\ last_exit = None
    /\ sink = << >>
    /\ file = NoFile
    /\ stray_temps = 0
    /\ acked = {}
    /\ FreshProcess

\* The fetch path against a service that also times out, answers 5xx inside
\* and outside the forcelist, and recovers after some requests: one device.
ApiFull ==
    ApiPlain \cup
    { Server(404, 1, FALSE), Server(503, 0, TRUE), Server(503, 1, FALSE),
      Server(501, 0, TRUE), Server(501, 2, FALSE), Server(0, 0, TRUE),
      Server(0, RetryTotal + 1, FALSE) }

InitFetch ==
    /\ device_map = << "A" >>
    /\ date_ranges = get_daily_unix_ranges(1, NumDays)
    /\ api = ApiFull
    /\ fs = "ok"
    /\ fs_events = 0
    /\ runs = 1
    /\ last_exit = None
    /\ sink = << >>
    /\ file = NoFile
    /\ stray_temps = 0
    /\ acked = {}
    /\ FreshProcess

SpecFetch == InitFetch /\ [][Next]_vars

NextScenario ==
    \/ RunStart
    \/ NextDevice
    \/ Submit
    \/ Worker
    \/ FutureCheck
    \/ FutureResult
    \/ Drain
    \/ RunSave
    \/ SaveOpen
    \/ SaveDump
    \/ SaveReplace
    \/ Join
    \/ Progress
    \/ TriggerShutdown
    \/ Restart

SpecScenario == InitScenario /\ [][NextScenario]_vars

\* The pool at its cap: devices A and B with one day more than the pool has
\* threads, against a service that is up or down as a whole and answers the
\* requests in the order it got them; shutdown signals as before. The run
\* starts on the checkpoint of a run that was cancelled when all but the last
\* two days of A were marked.
PoolDays == MaxWorkers + 1

CancelledCheckpoint ==
    [NewCheckpointData EXCEPT
        !.current_device_serial = "A",
        !.current_date = DateStrings[PoolDays - 2],
        !.completed_dates =
            [d \in {"A"} |-> { DateStrings[k] : k \in 1..(PoolDays - 2) }]]

InitPool ==
    /\ device_map = << "A", "B" >>
    /\ date_ranges = get_daily_unix_ranges(1, PoolDays)
    /\ api \in { {Server(200, 0, FALSE)}, {Server(404, 0, TRUE)} }
    /\ fs = "ok"
    /\ fs_events = 0
    /\ runs = 1
    /\ last_exit = "cancelled"
    /\ sink = << >>
    /\ file = FileOf(Pickle(CancelledCheckpoint), TRUE)
    /\ stray_temps = 0
    /\ acked = {}
    /\ FreshProcess

\* the running task that was submitted first ends
WorkerInOrder ==
    /\ Alive
    /\ Running # {}
    /\ LET i == CHOOSE j \in Running : \A k \in Running : j <= k
       IN \E b \in api : process_date(i, b)
    /\ UNCHANGED << envVars, dirVars, saveVars, loopVars, pc, shutdown_requested,
                    checkpoint_data, exc, loaded, submitted, save_failed, acked >>

NextPool ==
    \/ RunStart
    \/ NextDevice
    \/ Submit
    \/ WorkerInOrder
    \/ FutureCheck
    \/ FutureResult
    \/ Drain
    \/ RunSave
    \/ SaveOpen
    \/ SaveDump
    \/ SaveReplace
    \/ Join
    \/ Progress
    \/ TriggerShutdown

SpecPool == InitPool /\ [][NextPool]_vars

\* The shutdown controller on its own.
NextShutdown ==
    \/ RegisterHandler
    \/ Signal

SpecShutdown == Init /\ [][NextShutdown]_vars

\* ================================================================ properties
\* the day keys of the configured range, the set of the registry's devices
RangeDates == { strftime_date(date_ranges[i][1]) : i \in 1..Len(date_ranges) }
Registry == { device_map[i] : i \in 1..Len(device_map) }

DatesOf(cp, d) == IF d \in DOMAIN cp.completed_dates THEN cp.completed_dates[d] ELSE {}

OnDisk == Unpickle(file.bytes)

\* every fetch of this run returned a payload
AllFetchesOk == \A f \in fetched : f.res.outcome = "payload"

\* C1: a unit that is complete in the checkpoint as load_checkpoint left it
\* at the start of run() is never submitted to the pool during that run.
C1_Idempotence ==
    \A k \in 1..Len(submitted) :
        ~is_date_complete(loaded, submitted[k][1], submitted[k][2])

\* a resumed run submits a unit of a device that has completed dates
C1_Witness ==
    \E k \in 1..Len(submitted) : DatesOf(loaded, submitted[k][1]) # {}

\* C2: in memory and on disk, a device is in completed_devices only if every
\* day of the configured range is in completed_dates[device].
DevicesBacked(cp) ==
    \A d \in cp.completed_devices : RangeDates \subseteq DatesOf(cp, d)

C2_CompleteOnlyIfAllDates ==
    /\ DevicesBacked(checkpoint_data)
    /\ file.exists => (file.complete /\ DevicesBacked(OnDisk))

\* a device is recorded complete, in memory and on disk
C2_Witness ==
    /\ checkpoint_data.completed_devices # {}
    /\ file.exists
    /\ OnDisk.completed_devices # {}

\* C3: when run() has returned, a device is in completed_devices if and only
\* if every day of the range is in completed_dates[device]; stated for the
\* runs in which no save failed.
C3_CompleteIffAllDates ==
    (pc = "done" /\ ~save_failed) =>
        \A d \in Registry :
            d \in checkpoint_data.completed_devices
                <=> RangeDates \subseteq DatesOf(checkpoint_data, d)

\* C4: the target file is absent or a whole serialization; it changes only in
\* the step in which save_checkpoint renames and returns, and then to the
\* serialization of the checkpoint in memory; a kill, a failed attempt and a
\* save_checkpoint that raises leave it as it was.
C4_AtomicPersistence ==
    /\ [](file.exists => file.complete)
    /\ [][file' # file =>
            /\ pc = "save_replace"
            /\ pc' \in {"run_save", "drain", "device"}
            /\ file' = FileOf(Pickle(checkpoint_data), TRUE)]_vars
    /\ [][(pc' = "crashed" \/ attempt' = attempt + 1 \/ save_failed' # save_failed)
            => file' = file]_vars

\* a process was killed in the middle of a save and the earlier file is there
C4_Witness ==
    /\ pc = "crashed"
    /\ stray_temps > 0
    /\ fs_events = 0
    /\ file.exists

\* C5: a unit for which mark_date_complete has returned is in the file from
\* then on, and in the checkpoint of every later process once it has loaded.
C5_Durability ==
    \A u \in acked :
        /\ file.exists /\ file.complete
        /\ is_date_complete(OnDisk, u[1], u[2])
        /\ pc \notin {"start", "crashed"}
              => is_date_complete(checkpoint_data, u[1], u[2])

\* a process that was killed after an acknowledgement; the next one has loaded
C5_Witness ==
    /\ last_exit = "killed"
    /\ pc = "device"
    /\ acked # {}

\* C6: a run that is not interrupted and whose fetches all succeed ends with
\* every device and every day complete, in memory and on disk, whatever runs
\* (returned, cancelled, failed or killed) came before it: the state a single
\* uninterrupted run from no checkpoint ends with.
FullIn(cp) ==
    /\ cp.completed_devices = Registry
    /\ \A d \in Registry : DatesOf(cp, d) = RangeDates
    /\ DOMAIN cp.completed_dates = Registry

C6_ResumeCorrectness ==
    (pc = "done" /\ ~shutdown_requested /\ ~save_failed /\ AllFetchesOk) =>
        /\ FullIn(checkpoint_data)
        /\ file.exists /\ FullIn(OnDisk)

\* an uninterrupted run that resumed from the partial progress of a process
\* that was cancelled or killed
C6_Witness ==
    /\ pc = "done" /\ ~shutdown_requested /\ ~save_failed /\ AllFetchesOk
    /\ last_exit \in {"cancelled", "killed"}
    /\ loaded.completed_dates # << >>
    /\ loaded.completed_devices # Registry
    /\ submitted # << >>

\* the unit of a task of the pool
UnitOf(t) == << t.args[1], strftime_date(t.args[2]) >>

\* C7: a unit whose every request is answered 503 is requested exactly
\* max_retries times, its fetch then raises, and it is not marked complete.
C7_RetryBound ==
    \A i \in 1..Len(task) :
        (Finished(task[i]) /\ task[i].server = Server(503, 0, TRUE)) =>
            /\ task[i].res.requests = FetchMaxRetries
            /\ task[i].st = "failed"
            /\ ~is_date_complete(checkpoint_data, UnitOf(task[i])[1], UnitOf(task[i])[2])

\* C8: a fetch whose request is answered 4xx makes that one request and one
\* attempt only, and ends in a failure.
C8_ClientErrorNotRetried ==
    \A i \in 1..Len(task) :
        (Finished(task[i]) /\ Response(task[i].server, 1) \in 400..499) =>
            /\ task[i].res.attempts = 1
            /\ task[i].res.requests = 1
            /\ task[i].st = "failed"

\* C9: after a run (not cancelled, no save failed) in which a fetch of a
\* device failed, the failed unit is not complete, the device is not
\* complete, and every unit of the device whose fetch succeeded is complete.
C9_FailureKeepsOthers ==
    (pc = "done" /\ ~shutdown_requested /\ ~save_failed) =>
        \A f \in fetched :
            f.res.outcome = "raise" =>
                /\ ~is_date_complete(checkpoint_data, f.unit[1], f.unit[2])
                /\ f.unit[1] \notin checkpoint_data.completed_devices
                /\ \A g \in fetched :
                       (g.unit[1] = f.unit[1] /\ g.res.outcome = "payload") =>
                           is_date_complete(checkpoint_data, g.unit[1], g.unit[2])

\* C10: a run that starts from a checkpoint holding exactly A:d1 and A:d2,
\* left by a cancelled run, submits A:d3, B:d1, B:d2, B:d3 in this order and
\* nothing else, no unit of B before the fetch of A:d3 has ended; when it is
\* not cancelled and its fetches succeed it ends with A and B complete.
ScenarioOrder == << <<"A", "d3">>, <<"B", "d1">>, <<"B", "d2">>, <<"B", "d3">> >>

ScenarioRun ==
    /\ last_exit = "cancelled"
    /\ pc \notin {"start", "crashed"}
    /\ loaded.completed_devices = {}
    /\ DOMAIN loaded.completed_dates = {"A"}
    /\ loaded.completed_dates["A"] = {"d1", "d2"}

C10_ResumeScenario ==
    ScenarioRun =>
        /\ Len(submitted) <= Len(ScenarioOrder)
        /\ submitted = SubSeq(ScenarioOrder, 1, Len(submitted))
        /\ Len(submitted) >= 2 => \E f \in fetched : f.unit = <<"A", "d3">>
        /\ (pc = "done" /\ ~shutdown_requested /\ AllFetchesOk) =>
              /\ submitted = ScenarioOrder
              /\ checkpoint_data.completed_devices = {"A", "B"}
              /\ OnDisk.completed_devices = {"A", "B"}

\* run 2 of the scenario has ended, uncancelled, all fetches successful
C10_Witness ==
    /\ ScenarioRun
    /\ pc = "done" /\ ~shutdown_requested /\ AllFetchesOk
    /\ Len(submitted) = 4

\* A process started on a checkpoint file that does not unpickle (cut short by
\* a failing disk, or written by something else): the file is an input.
InitCorrupt ==
    /\ device_map = SubSeq(AllSerials, 1, NumDevices)
    /\ date_ranges = get_daily_unix_ranges(1, NumDays)
    /\ api = ApiPlain
    /\ fs = "ok"
    /\ fs_events = 0
    /\ runs = 1
    /\ last_exit = None
    /\ sink = << >>
    /\ file = FileOf(<< >>, FALSE)
    /\ stray_temps = 0
    /\ acked = {}
    /\ FreshProcess

SpecCorrupt == InitCorrupt /\ [][NextScenario]_vars

\* C11: started on a checkpoint file that exists and cannot be deserialized,
\* run() ends by raising, before any unit is submitted or fetched; it never
\* goes on from the empty checkpoint.
C11_CorruptLoadAborts ==
    (runs = 1 /\ pc # "start") =>
        /\ pc = "raised"
        /\ submitted = << >>
        /\ fetched = {}

\* C12: once a save_checkpoint call has raised in a run, that run ends by
\* raising (it never returns normally), and from the failure on it submits no
\* unit and changes neither the checkpoint in memory nor the file.
C12_PersistFailureFatal ==
    /\ [](save_failed => pc # "done")
    /\ [][(save_failed /\ save_failed') =>
            /\ submitted' = submitted
            /\ checkpoint_data' = checkpoint_data
            /\ file' = file]_vars

\* C13: the shutdown flag is read before each submission: in a run in which
\* the flag is set, no step appends a unit to the submitted ones, of this
\* device or a later one; and when run() has ended, by returning or raising,
\* the fetch of every unit it submitted has ended.
C13_CooperativeCancellation ==
    /\ [](pc \in {"done", "raised"} =>
            \A k \in 1..Len(submitted) : \E f \in fetched : f.unit = submitted[k])
    /\ [][shutdown_requested => Len(submitted') <= Len(submitted)]_vars

\* a run from no checkpoint that was cancelled between its first and its
\* second submission has ended, the one fetch done
C13_Witness ==
    /\ pc = "done"
    /\ shutdown_requested
    /\ loaded = NewCheckpointData
    /\ Len(submitted) = 1
    /\ fetched # {}

\* C14: a fetch that runs while the shutdown flag is set and whose attempt
\* fails with a retryable error (a timeout, a 5xx answer) ends with that
\* attempt: it starts no backoff sleep and makes no further attempt.
C14_NoBackoffAfterShutdown ==
    [][shutdown_requested =>
         \A i \in 1..Len(task) :
             ( /\ Len(task') = Len(task)
               /\ task[i].st = "running"
               /\ Finished(task'[i])
               /\ ( Response(task'[i].server, 1) = 0
                    \/ Response(task'[i].server, 1) >= 500 ) )
             => /\ task'[i].res.sleeps = << >>
                /\ task'[i].res.attempts = 1]_vars

\* C15: when run() has returned from a run in which no fetch and no save
\* failed, every unit whose fetch returned in that run is in completed_dates,
\* in memory and on disk, also when the run was cancelled meanwhile.
C15_NoProgressLost ==
    (pc = "done" /\ ~save_failed /\ AllFetchesOk) =>
        \A f \in fetched :
            /\ is_date_complete(checkpoint_data, f.unit[1], f.unit[2])
            /\ file.exists
            /\ is_date_complete(OnDisk, f.unit[1], f.unit[2])

\* C16: a unit that is in completed_dates, in memory or on disk, and was not
\* there when the run loaded its checkpoint, is a unit whose fetch returned a
\* payload in this run; a unit whose fetch raised in this run is not in
\* completed_dates; and with max_retries >= 1 a fetch ends in a payload or in
\* an exception, never in None.
NewlyComplete(cp) ==
    { u \in Registry \X RangeDates :
        is_date_complete(cp, u[1], u[2]) /\ ~is_date_complete(loaded, u[1], u[2]) }

FetchedOk == { f.unit : f \in { g \in fetched : g.res.outcome = "payload" } }

C16_MarkedOnlyAfterFetch ==
    pc \notin {"start", "crashed"} =>
        /\ NewlyComplete(checkpoint_data) \subseteq FetchedOk
        /\ file.exists => NewlyComplete(OnDisk) \subseteq FetchedOk
        /\ \A f \in fetched :
               f.res.outcome = "raise" =>
                   ~is_date_complete(checkpoint_data, f.unit[1], f.unit[2])
        /\ \A f \in fetched : \A m \in 1..FetchMaxRetries :
               fetch_device_data(f.server, m, InitialBackoff).outcome
                   \in {"payload", "raise"}

\* a run has ended in which the fetch of one unit raised and another unit was
\* fetched and marked complete
C16_Witness ==
    /\ pc = "done"
    /\ \E f \in fetched : f.res.outcome = "raise"
    /\ NewlyComplete(checkpoint_data) # {}

\* C17: the payload of every unit that has been marked complete was handed to
\* the sink before, and exactly once.
SinkCalls(u) == { k \in 1..Len(sink) : sink[k] = u }

C17_SinkBeforeCheckpoint ==
    \A u \in acked : Cardinality(SinkCalls(u)) = 1

\* C18: at most max_workers = 30 fetch tasks run at any instant; the tasks that
\* run or wait belong to one device; and a unit is submitted only when the
\* fetch of every unit submitted before it for another device has ended, also
\* after a fetch raised or the shutdown flag was seen.
C18_BoundedDeviceScoped ==
    /\ [](Cardinality(Running) <= MaxWorkers)
    /\ [](\A i \in Running \cup Queued : \A j \in Running \cup Queued :
              task[i].args[1] = task[j].args[1])
    /\ [][Len(submitted') > Len(submitted) =>
            \A k \in 1..Len(submitted) :
                submitted[k][1] # submitted'[Len(submitted')][1] =>
                    \E f \in fetched : f.unit = submitted[k]]_vars

\* device B's tasks fill the pool and one waits for a thread, after a fetch
\* of device A raised
C18_Witness ==
    /\ Cardinality(Running) = MaxWorkers
    /\ Queued # {}
    /\ \A i \in Running : task[i].args[1] = "B"
    /\ \E f \in fetched : f.unit[1] = "A" /\ f.res.outcome = "raise"

\* C19: a step in which a pool thread ends a task changes the task table, the
\* result queue and nothing of the checkpoint: not the checkpoint in memory,
\* not the file, not the temporary file or the attempt of a save in progress.
\* Every such change is a step of the coordinator, which runs one
\* save_checkpoint at a time.
SaveInProgress == pc \in {"save_open", "save_dump", "save_replace"}

C19_SingleWriter ==
    [][(fetched' # fetched /\ pc' = pc) =>
          /\ checkpoint_data' = checkpoint_data
          /\ file' = file
          /\ temp_path' = temp_path
          /\ attempt' = attempt
          /\ (result_queue' = result_queue
              \/ \E item \in Registry \X RangeDates \X (0..Len(device_map)) :
                     result_queue' = Append(result_queue, item))]_vars

\* the coordinator is in the middle of a save, its temporary file written,
\* while a pool thread is still running a task
C19_Witness ==
    /\ SaveInProgress
    /\ temp_path.exists
    /\ Running # {}

\* C20: within a run, from load_checkpoint on, no step removes a day from
\* completed_dates[device] or a device from completed_devices in memory; and
\* no step at all removes one from the file.
Subsumes(new, old) ==
    /\ old.completed_devices \subseteq new.completed_devices
    /\ \A d \in DOMAIN old.completed_dates :
           /\ d \in DOMAIN new.completed_dates
           /\ old.completed_dates[d] \subseteq new.completed_dates[d]

C20_MonotonicProgress ==
    /\ [][(pc # "start" /\ pc' \notin {"start", "crashed"}) =>
             Subsumes(checkpoint_data', checkpoint_data)]_vars
    /\ [][file.exists =>
             /\ file'.exists
             /\ Subsumes(Unpickle(file'.bytes), Unpickle(file.bytes))]_vars

\* a resumed run has added days and a device to what it loaded
C20_Witness ==
    /\ pc = "done"
    /\ loaded.completed_dates # << >>
    /\ checkpoint_data.completed_devices # loaded.completed_devices
    /\ checkpoint_data.completed_dates # loaded.completed_dates
    /\ OnDisk = checkpoint_data

\* C21: a run in which no save_checkpoint call raised does not end by raising,
\* whatever fetches failed in it; and when such a run has returned without
\* having been cancelled, every unit that was not complete when it loaded its
\* checkpoint has been submitted, the units of the devices after a failed one
\* included.
SubmittedUnits == { submitted[k] : k \in 1..Len(submitted) }

RemainingAtLoad ==
    { u \in Registry \X RangeDates :
        /\ u[1] \notin loaded.completed_devices
        /\ ~is_date_complete(loaded, u[1], u[2]) }

C21_FetchFailureNotFatal ==
    /\ ~save_failed => pc # "raised"
    /\ (pc = "done" /\ ~shutdown_requested /\ ~save_failed) =>
           RemainingAtLoad \subseteq SubmittedUnits

\* a run has returned in which a fetch of the first device raised and the
\* second device was fetched and marked complete after it
C21_Witness ==
    /\ pc = "done"
    /\ ~shutdown_requested
    /\ ~save_failed
    /\ \E f \in fetched : f.unit[1] = device_map[1] /\ f.res.outcome = "raise"
    /\ device_map[2] \in checkpoint_data.completed_devices
    /\ device_map[2] \notin loaded.completed_devices

\* C22: a run in which the shutdown flag is set and no save_checkpoint call
\* raised has not ended by raising: once over, it has returned, and every
\* key of progress_devices that the report of lines 331-334 looks up in
\* total_progress_devices is there.
RunOver == pc \in {"done", "raised"}

C22_CancelledRunReturns ==
    (shutdown_requested /\ ~save_failed /\ RunOver) =>
        /\ pc = "done"
        /\ DOMAIN progress_devices \subseteq DOMAIN total_progress_devices

\* a cancelled run has returned; it had fetched a unit and leaves a device
\* incomplete
C22_Witness ==
    /\ pc = "done"
    /\ shutdown_requested
    /\ ~save_failed
    /\ fetched # {}
    /\ checkpoint_data.completed_devices # Registry

\* C23: the flag is true from the first delivery on and is never cleared; a
\* delivery that finds the flag set changes nothing; the first delivery calls
\* every handler registered by then exactly once, in the order of
\* registration, also the ones after a handler that raises.
C23_SignalSetOnce ==
    /\ [](signals > 0 <=> shutdown_requested)
    /\ [][shutdown_requested => shutdown_requested']_vars
    /\ [][(signals' = signals + 1 /\ shutdown_requested) =>
             UNCHANGED << shutdown_requested, handler_log, cleanup_handlers >>]_vars
    /\ [][(signals' = signals + 1 /\ ~shutdown_requested) =>
             /\ Len(handler_log') = Len(cleanup_handlers)
             /\ \A k \in 1..Len(cleanup_handlers) : handler_log'[k] = k]_vars

\* three signals have been delivered to a process with two handlers
\* registered before the first, the first of which raises
C23_Witness ==
    /\ signals = MaxSignals
    /\ Len(cleanup_handlers) >= 2
    /\ cleanup_handlers[1] = "raises"
    /\ Len(handler_log) = 2

\* --------------------------------- main.py and signal_handler/signal_handler.py
\* main() up to the collection loop (lines 33-149): setup_signal_handler
\* installs handle_signal for SIGINT and SIGTERM, the registry and the day
\* ranges are read; the days of the model lie in one month
MainStart ==
    /\ pc = "start"
    /\ pc' = "main_device"
    /\ dev_pos' = 1
    /\ UNCHANGED << envVars, dirVars, saveVars, poolVars, histVars,
                    shutdown_requested, checkpoint_data, exc,
                    remaining_devices, device_index, device_serial,
                    start_date_str, remaining_dates, completed_all_dates,
                    days_processed, n_futures, fut_i, processed_devices,
                    progress_devices, total_progress_devices >>

\* handle_signal runs in the main thread, which does nothing else until the
\* handler returns; this handler never returns
MainThreadFree == handle_signal_pc = "none"

\* the head of `for serial, device_name in device_map.items()` (lines 164-184):
\* the flag is read, then one fetch per day of the month is submitted
MainDevice ==
    /\ pc = "main_device"
    /\ MainThreadFree
    /\ IF dev_pos > Len(device_map)
       THEN /\ pc' = "main_done"
            /\ UNCHANGED << device_serial, task, submitted >>
       ELSE IF signal_handler_shutdown_requested
       THEN /\ pc' = "main_returned"
            /\ UNCHANGED << device_serial, task, submitted >>
       ELSE /\ device_serial' = device_map[dev_pos]
            /\ task' = StartQueued(
                   [i \in 1..Len(date_ranges) |->
                       [TaskTable(device_map[dev_pos], date_ranges, dev_pos)[i]
                           EXCEPT !.st = "submitted"]])
            /\ submitted' = submitted \o
                   [i \in 1..Len(date_ranges) |->
                       << device_map[dev_pos], strftime_date(date_ranges[i][1]) >>]
            /\ pc' = "main_as_completed"
    /\ UNCHANGED << envVars, dirVars, saveVars, shutdown_requested, checkpoint_data,
                    exc, remaining_devices, dev_pos, device_index, start_date_str,
                    remaining_dates, completed_all_dates, days_processed,
                    n_futures, fut_i, processed_devices, progress_devices,
                    total_progress_devices, result_queue, loaded, fetched,
                    save_failed, acked >>

\* a pool thread of main(): data.fetch_device_data itself is the task
\* (lines 175-182); the threads run until the process exits
MainWorker ==
    /\ handle_signal_pc # "exited"
    /\ \E i \in Running : \E b \in api :
         LET res == fetch_device_data(b, FetchMaxRetries, InitialBackoff) IN
         /\ task' = StartQueued(
                [task EXCEPT ![i].st = IF res.outcome = "raise" THEN "failed"
                                       ELSE "done",
                             ![i].server = b, ![i].res = res])
         /\ fetched' = fetched \cup
                {[unit |-> UnitOf(task[i]), server |-> b, res |-> res]}
    /\ UNCHANGED << envVars, dirVars, saveVars, loopVars, pc, shutdown_requested,
                    checkpoint_data, exc, result_queue, loaded, submitted,
                    save_failed, acked >>

\* one round of `for future in as_completed(futures)` (lines 195-235): a
\* finished future is yielded, the flag is read, future.result() returns the
\* payload, which is written to the device's CSV file, or raises; after the
\* last future the with block is left and the next device follows
MainAsCompleted ==
    /\ pc = "main_as_completed"
    /\ MainThreadFree
    /\ LET pending == { i \in 1..Len(task) : task[i].st # "yielded" } IN
       IF pending = {}
       THEN /\ dev_pos' = dev_pos + 1
            /\ task' = << >>
            /\ pc' = "main_device"
            /\ UNCHANGED << sink, exc >>
       ELSE \E i \in pending :
            /\ Finished(task[i])
            /\ IF signal_handler_shutdown_requested
               THEN /\ pc' = "main_leave"
                    /\ UNCHANGED << task, sink, exc >>
               ELSE IF task[i].st = "failed"
               THEN /\ exc' = TRUE
                    /\ pc' = "main_leave"
                    /\ UNCHANGED << task, sink >>
               ELSE /\ task' = [task EXCEPT ![i].st = "yielded"]
                    /\ sink' = IF task[i].res.outcome = "payload"
                               THEN Append(sink, UnitOf(task[i]))
                               ELSE sink
                    /\ pc' = "main_as_completed"
                    /\ UNCHANGED exc
            /\ UNCHANGED dev_pos
    /\ UNCHANGED << device_map, date_ranges, api, fs, fs_events, runs, last_exit,
                    sigVars, handlerVars, dirVars, saveVars, shutdown_requested,
                    checkpoint_data, remaining_devices, device_index,
                    device_serial, start_date_str, remaining_dates,
                    completed_all_dates, days_processed, n_futures, fut_i,
                    processed_devices, progress_devices, total_progress_devices,
                    result_queue, histVars >>

\* `return` or an exception inside the with block (lines 173, 198, 200):
\* ThreadPoolExecutor.__exit__ waits for every submitted task, then main()
\* is left
MainLeave ==
    /\ pc = "main_leave"
    /\ MainThreadFree
    /\ \A i \in 1..Len(task) : task[i].st \in {"done", "failed", "yielded"}
    /\ pc' = IF exc THEN "main_raised" ELSE "main_returned"
    /\ UNCHANGED << envVars, dirVars, saveVars, loopVars, poolVars, histVars,
                    shutdown_requested, checkpoint_data, exc >>

MainEnded == pc \in {"main_done", "main_returned", "main_raised"}

\* handle_signal, lines 14-19: SIGINT or SIGTERM reaches the process; the
\* handler sets the module's flag and sleeps for one second in the main thread
HandleSignal ==
    /\ pc # "start"
    /\ ~MainEnded
    /\ handle_signal_pc = "none"
    /\ signal_handler_shutdown_requested' = TRUE
    /\ handle_signal_pc' = "sleep"
    /\ UNCHANGED << inputVars, sigVars, dirVars, saveVars, loopVars, poolVars,
                    histVars, pc, shutdown_requested, checkpoint_data, exc >>

\* handle_signal, line 20: os._exit(1) ends the process with all its threads,
\* whatever they are doing
HandleSignalExit ==
    /\ handle_signal_pc = "sleep"
    /\ handle_signal_pc' = "exited"
    /\ UNCHANGED << inputVars, sigVars, signal_handler_shutdown_requested, dirVars,
                    saveVars, loopVars, poolVars, histVars, pc,
                    shutdown_requested, checkpoint_data, exc >>

NextMain ==
    \/ MainStart
    \/ MainDevice
    \/ MainWorker
    \/ MainAsCompleted
    \/ MainLeave
    \/ HandleSignal
    \/ HandleSignalExit

SpecMain == Init /\ [][NextMain]_vars

\* the fetches that were in flight when the process ended
KilledFetches == { i \in 1..Len(task) : task[i].st = "running" }

\* C24: a shutdown signal does not kill a fetch in flight: when the process
\* has ended after a signal, no fetch that had started is left unfinished.
C24_InFlightNotKilled ==
    (signal_handler_shutdown_requested /\ handle_signal_pc = "exited") =>
        KilledFetches = {}

\* ------------------------------------------- save_checkpoint, called directly
\* a caller's checkpoint.save_checkpoint(index, serial, date, max_retries = m)
\* (lines 36-62) on a fresh CheckpointManager
CallSave ==
    /\ pc = "start"
    /\ \E m \in 1..MaxSaveRetries : save_max_retries' = m
    /\ checkpoint_data' = UpdateCursor(checkpoint_data, 0, device_map[1],
                                       strftime_date(date_ranges[1][1]))
    /\ attempt' = 0
    /\ temp_path' = NoFile
    /\ ret' = None
    /\ save_sleeps' = << >>
    /\ pc' = "save_open"
    /\ UNCHANGED << envVars, dirVars, loopVars, poolVars, histVars,
                    shutdown_requested, exc >>

\* the file system starts or stops refusing renames or writes, at any point
\* of the call and any number of times
FsFlip ==
    /\ pc \in {"start", "save_open", "save_dump", "save_replace"}
    /\ \E m \in {"ok", "locked", "full"} \ {fs} : fs' = m
    /\ UNCHANGED << device_map, date_ranges, api, fs_events, runs, last_exit, sink,
                    sigVars, handlerVars, dirVars, saveVars, loopVars, poolVars,
                    histVars, pc, shutdown_requested, checkpoint_data, exc >>

NextSave ==
    \/ CallSave
    \/ FsFlip
    \/ SaveOpen
    \/ SaveDump
    \/ SaveReplace

SpecSave == Init /\ [][NextSave]_vars

\* an attempt of save_checkpoint ends without a successful rename
AttemptEndsFailed ==
    \/ pc = "save_dump" /\ fs = "full"
    \/ pc = "save_replace" /\ fs = "locked"

\* C25: for every max_retries >= 1, save_checkpoint makes at most max_retries
\* attempts, each later one numbered one more than the one before; it sleeps
\* only after a rename refused with PermissionError on an attempt that is not
\* the last, and then for retry_delay * 2^attempt; the first rename that
\* succeeds makes it return, with the temporary file in place of the target;
\* it raises when, and only when, attempt number max_retries fails.
C25_BoundedPersistRetry ==
    /\ [](SaveInProgress => (attempt < save_max_retries /\ save_max_retries >= 1))
    /\ [][(SaveInProgress /\ pc' = "save_open" /\ pc # "save_open")
              => attempt' = attempt + 1]_vars
    /\ [][save_sleeps' # save_sleeps =>
              \/ save_sleeps' = << >>
              \/ /\ pc = "save_replace" /\ fs = "locked"
                 /\ attempt < save_max_retries - 1
                 /\ save_sleeps' = Append(save_sleeps, Pow2(attempt))
                 /\ pc' = "save_open"]_vars
    /\ [][(pc = "save_replace" /\ fs = "locked" /\ attempt < save_max_retries - 1
              /\ pc' # pc)
              => Len(save_sleeps') = Len(save_sleeps) + 1]_vars
    /\ [][(pc = "save_replace" /\ fs # "locked" /\ pc' # pc)
              => (pc' = "save_returned" /\ file' = temp_path)]_vars
    /\ [][(ret = None /\ pc' = "save_returned" /\ pc # "save_returned")
              => (pc = "save_replace" /\ fs # "locked")]_vars
    /\ [][(ret = None /\ AttemptEndsFailed /\ pc' # pc)
              => (pc' = "save_raised" <=> attempt = save_max_retries - 1)]_vars
    /\ [][(ret = None /\ pc' = "save_raised" /\ pc # "save_raised")
              => (AttemptEndsFailed /\ attempt = save_max_retries - 1)]_vars

\* a call with max_retries = 4 whose first two renames were refused, slept on
\* for 1 and 2 retry_delay, and whose third attempt's rename succeeded
C25_Witness ==
    /\ pc = "save_returned"
    /\ save_max_retries = 4
    /\ save_sleeps = << 1, 2 >>
    /\ attempt = 2
    /\ file = FileOf(Pickle(checkpoint_data), TRUE)

\* ----------------------------------------- fetch_device_data, called directly
\* the values of initial_backoff a caller passes, in seconds
InitialBackoffs == {1, 2, 30, 90}

\* a service that fails the first n requests of a call with a status that
\* urllib3 does not resend, or every request in one of four ways
ApiDirect ==
    { Server(501, n, FALSE) : n \in 0..MaxFetchRetries } \cup
    { Server(0, 0, TRUE), Server(404, 0, TRUE), Server(503, 0, TRUE),
      Server(501, 0, TRUE) }

\* a caller's data.fetch_device_data(session, token, device_id, start_time,
\* end_time, max_retries = m, initial_backoff = b0) (lines 12-20)
CallFetch ==
    /\ pc = "start"
    /\ \E m \in 1..MaxFetchRetries : \E b0 \in InitialBackoffs :
         task' = << [args |-> << device_map[1], date_ranges[1][1],
                                 date_ranges[1][2], m, b0 >>,
                     st |-> "running",
                     server |-> NoServer,
                     res |-> NoResult] >>
    /\ pc' = "fetch_call"
    /\ UNCHANGED << envVars, dirVars, saveVars, loopVars, histVars, result_queue,
                    shutdown_requested, checkpoint_data, exc >>

\* the call runs its loop (lines 51-115) against a service that behaves as b
\* and returns or raises
FetchEnds ==
    /\ pc = "fetch_call"
    /\ \E b \in ApiDirect :
         LET res == fetch_device_data(b, task[1].args[4], task[1].args[5]) IN
         /\ task' = [task EXCEPT ![1].st = IF res.outcome = "raise" THEN "failed"
                                           ELSE "done",
                                 ![1].server = b, ![1].res = res]
         /\ pc' = IF res.outcome = "raise" THEN "fetch_raised" ELSE "fetch_returned"
    /\ UNCHANGED << envVars, dirVars, saveVars, loopVars, histVars, result_queue,
                    shutdown_requested, checkpoint_data, exc >>

NextBackoff ==
    \/ CallFetch
    \/ FetchEnds

SpecBackoff == Init /\ [][NextBackoff]_vars

\* the calls of fetch_device_data that have ended
EndedCalls == { i \in 1..Len(task) : Finished(task[i]) }

\* C26: the k-th failed attempt of a call (k from 0) that is not the last
\* allowed one is followed by a wait of min(initial_backoff * 2^k, 60) seconds:
\* a call that made n attempts waited n - 1 times, the waits never decrease
\* and never exceed 60; a call whose last allowed attempt fails raises after
\* max_retries attempts and max_retries - 1 waits.
C26_BackoffSchedule ==
    \A i \in EndedCalls :
        LET max_retries == task[i].args[4]
            initial_backoff == task[i].args[5]
            res == task[i].res
        IN /\ res.outcome \in {"payload", "raise"}
           /\ Len(res.sleeps) = res.attempts - 1
           /\ \A k \in 0..(res.attempts - 2) :
                  /\ res.sleeps[k + 1] =
                         IF initial_backoff * Pow2(k) < 60
                         THEN initial_backoff * Pow2(k) ELSE 60
                  /\ res.sleeps[k + 1] <= 60
                  /\ k > 0 => res.sleeps[k] <= res.sleeps[k + 1]
           /\ res.outcome = "raise" => res.attempts = max_retries
           /\ res.attempts <= max_retries

\* a call with max_retries = 8 and initial_backoff = 1 against a service
\* that fails every request: 1, 2, 4, 8, 16, 32 and then the cap of 60
C26_Witness ==
    /\ pc = "fetch_raised"
    /\ task[1].args[4] = 8
    /\ task[1].args[5] = 1
    /\ task[1].res.sleeps = << 1, 2, 4, 8, 16, 32, 60 >>

\* the attempts of a fetch that fail against a service that times out or
\* answers 5xx to its first n requests: an attempt whose request is resent by
\* urllib3 spans RetryTotal + 1 requests, any other attempt one
FailedAttempts(b) ==
    IF b.status = 0 \/ b.status \in StatusForcelist
    THEN b.n \div (RetryTotal + 1)
    ELSE b.n

Recovers(b) ==
    /\ ~b.forever
    /\ b.status = 0 \/ b.status >= 500
    /\ FailedAttempts(b) < FetchMaxRetries

\* C27: a fetch whose first j attempts (j < max_retries) fail with a timeout
\* or a 5xx answer and whose attempt j + 1 succeeds returns the payload and
\* does not raise; its task ends as done and puts the same (serial, date,
\* index) on the result queue as a fetch that succeeded at once; and when a
\* run has returned without cancellation, failed fetch or failed save, the
\* unit is complete in memory and on disk like every other fetched unit.
C27_RetryableErrorsDoNotEscape ==
    /\ [](\A f \in fetched :
            Recovers(f.server) =>
                /\ f.res.outcome = "payload"
                /\ f.res.attempts = FailedAttempts(f.server) + 1)
    /\ [][\A i \in 1..Len(task) :
            ( /\ Len(task') = Len(task)
              /\ task[i].st = "running"
              /\ Finished(task'[i])
              /\ task'[i].res.outcome = "payload" )
            => /\ task'[i].st = "done"
               /\ result_queue' = Append(result_queue,
                      << task[i].args[1], strftime_date(task[i].args[2]),
                         task[i].args[4] >>)]_vars
    /\ []((pc = "done" /\ ~shutdown_requested /\ ~save_failed /\ AllFetchesOk) =>
            \A f \in fetched :
                /\ is_date_complete(checkpoint_data, f.unit[1], f.unit[2])
                /\ file.exists
                /\ is_date_complete(OnDisk, f.unit[1], f.unit[2]))

\* a run has returned in which one unit was fetched on its third attempt,
\* after two answers 501, another on its second, after a timeout, and both
\* are complete on disk
C27_Witness ==
    /\ pc = "done"
    /\ ~shutdown_requested
    /\ file.exists
    /\ \E f \in fetched :
          /\ f.server = Server(501, 2, FALSE)
          /\ f.res.outcome = "payload" /\ f.res.attempts = 3
          /\ is_date_complete(OnDisk, f.unit[1], f.unit[2])
    /\ \E f \in fetched :
          /\ f.server = Server(0, RetryTotal + 1, FALSE)
          /\ f.res.outcome = "payload" /\ f.res.attempts = 2
          /\ is_date_complete(OnDisk, f.unit[1], f.unit[2])

\* sub lists exactly the elements of seq that are in keep, each once, in the
\* order they have in seq (the elements of seq are distinct)
PosIn(seq, x) == CHOOSE k \in 1..Len(seq) : seq[k] = x

ExactlyInOrder(sub, seq, keep) ==
    /\ { sub[k] : k \in 1..Len(sub) } = { seq[k] : k \in 1..Len(seq) } \cap keep
    /\ \A i, j \in 1..Len(sub) :
           i < j => PosIn(seq, sub[i]) < PosIn(seq, sub[j])

\* C28: from the load on, remaining_devices lists exactly the devices of the
\* registry that are not in completed_devices of the loaded checkpoint, in
\* registry order; each time the device loop takes a device, remaining_dates
\* lists exactly the ranges of the configured range whose day is not in
\* completed_dates[device], in range order; and no unit of a device that was
\* in completed_devices at the load is ever submitted.
C28_RemainingExact ==
    /\ [](pc \notin {"start", "crashed"} =>
            ExactlyInOrder(remaining_devices, device_map,
                           Registry \ loaded.completed_devices))
    /\ [][(pc = "device" /\ pc' = "submit") =>
            ExactlyInOrder(remaining_dates', date_ranges,
                { rg \in { date_ranges[k] : k \in 1..Len(date_ranges) } :
                    strftime_date(rg[1]) \notin
                        DatesOf(checkpoint_data, device_serial') })]_vars
    /\ [](\A k \in 1..Len(submitted) :
            submitted[k][1] \notin loaded.completed_devices)

\* a resumed run that found A complete and d1 of B done: it lists B alone and
\* submits d2 of B alone
C28_Witness ==
    /\ pc = "futures"
    /\ loaded.completed_devices = {"A"}
    /\ DatesOf(loaded, "B") = {"d1"}
    /\ remaining_devices = << "B" >>
    /\ Len(remaining_dates) = 1
    /\ submitted = << << "B", "d2" >> >>

\* the units of device d marked complete since the load
MarkedThisRun(d) == DatesOf(checkpoint_data, d) \ DatesOf(loaded, d)

\* C29: when run() has returned from a run in which no save and no fetch
\* failed, every device it left incomplete and recorded
\* in progress_devices is recorded with the number of its units marked
\* complete in this run, and in total_progress_devices with the size of
\* completed_dates[device].
C29_ProgressAccounting ==
    (pc = "done" /\ ~save_failed /\ AllFetchesOk) =>
        \A d \in DOMAIN progress_devices :
            ~is_device_complete(checkpoint_data, d) =>
                /\ progress_devices[d] = Cardinality(MarkedThisRun(d))
                /\ total_progress_devices[d] =
                       Cardinality(DatesOf(checkpoint_data, d))

\* C30: when a call of save_checkpoint has returned or raised, no temporary
\* file it created is left: each was renamed over the target or deleted.
C30_TempFilesDoNotLeak ==
    pc \in {"save_returned", "save_raised"} =>
        /\ stray_temps = 0
        /\ ~temp_path.exists

\* the device of the current iteration of `for device_index, device_serial in
\* enumerate(remaining_devices)` and its index
InDeviceLoop == pc \in {"submit", "futures", "result", "drain", "run_save", "join",
                        "progress"}
LoopDevice == remaining_devices[dev_pos + 1]

\* C31: every entry of the result queue is (device, day, index) of the device
\* the loop is at, so the drain loop's rebinding leaves device_serial and
\* device_index as the loop set them; a drain step adds a day under that
\* device's key alone; and mark_device_complete is called for that device.
C31_ResultQueueIsolation ==
    /\ [](InDeviceLoop =>
            /\ \A k \in 1..Len(result_queue) :
                   /\ result_queue[k][1] = LoopDevice
                   /\ result_queue[k][3] = dev_pos
            /\ device_serial = LoopDevice
            /\ device_index = dev_pos)
    /\ [][(pc = "drain" /\ pc' # "crashed") =>
            \A d \in Registry :
                DatesOf(checkpoint_data', d) # DatesOf(checkpoint_data, d) =>
                    /\ d = LoopDevice
                    /\ \E k \in 1..Len(submitted) :
                           /\ submitted[k][1] = d
                           /\ DatesOf(checkpoint_data', d) =
                                  DatesOf(checkpoint_data, d) \cup {submitted[k][2]}]_vars
    /\ [][(pc = "progress" /\ pc' = "save_open" /\ completed_all_dates) =>
            checkpoint_data'.completed_devices =
                checkpoint_data.completed_devices \cup {LoopDevice}]_vars

\* the drain loop of the second device, B, holds the results of both of B's
\* days after A was marked complete
C31_Witness ==
    /\ pc = "drain"
    /\ dev_pos = 1
    /\ LoopDevice = "B"
    /\ Len(result_queue) = 2
    /\ "A" \in checkpoint_data.completed_devices

\* a CheckpointManager call of this run has reached save_checkpoint: every
\* such call changes the checkpoint in memory before it writes
SaveAttempted == save_failed \/ checkpoint_data # loaded

\* C32: whenever the coordinator is outside the CheckpointManager's calls and
\* a save has been attempted in the run, the file holds the completed_devices
\* and completed_dates of the checkpoint in memory, also after a
\* save_checkpoint that raised.
C32_MemoryDiskAgree ==
    ( /\ pc \notin {"start", "crashed"}
      /\ ~SaveInProgress
      /\ SaveAttempted ) =>
        /\ file.exists
        /\ OnDisk.completed_devices = checkpoint_data.completed_devices
        /\ OnDisk.completed_dates = checkpoint_data.completed_dates

\* ------------------------------------------------ one execution of run()
\* the steps of the main thread inside run()
Coordinator ==
    \/ RunStart
    \/ NextDevice
    \/ Submit
    \/ FutureCheck
    \/ FutureResult
    \/ Drain
    \/ RunSave
    \/ SaveOpen
    \/ SaveDump
    \/ SaveReplace
    \/ Join
    \/ Progress

\* one process from its start to the end of run(): it is not killed; signals
\* and file-system changes arrive as before
NextRun ==
    \/ Coordinator
    \/ Worker
    \/ TriggerShutdown
    \/ FsChange

\* the main thread and the pool threads are scheduled, and a request that was
\* sent is answered or times out (session.post, timeout=60): a step of either
\* that stays possible is taken
FairRun == WF_vars(Coordinator) /\ WF_vars(Worker)

SpecRun == Init /\ [][NextRun]_vars /\ FairRun

\* C33: every execution of run() returns or raises; once the shutdown flag is
\* set the run ends, and until then no task joins the submitted ones: it
\* waits for the fetches already submitted only; and no fetch makes more than
\* max_retries attempts.
C33_RunTerminates ==
    /\ <>RunOver
    /\ (shutdown_requested ~> RunOver)
    /\ [][shutdown_requested =>
            (RunningIn(task') \cup QueuedIn(task')) \subseteq (Running \cup Queued)]_vars
    /\ [](\A f \in fetched : f.res.attempts <= FetchMaxRetries)

\* a cancelled run has returned after waiting for a submitted fetch that made
\* all its max_retries attempts and raised
C33_Witness ==
    /\ pc = "done"
    /\ shutdown_requested
    /\ Len(submitted) = 1
    /\ \E f \in fetched :
          /\ f.unit = submitted[1]
          /\ f.res.attempts = FetchMaxRetries
          /\ f.res.outcome = "raise"

\* ------------------------------------------- the CheckpointManager, called directly
\* a caller of a fresh CheckpointManager is between two calls, none of which
\* has raised
BetweenCalls == pc \in {"start", "save_returned", "loaded_fresh"} /\ ~save_failed

ManagerFrame ==
    UNCHANGED << envVars, dirVars, poolVars, shutdown_requested, remaining_devices,
                 device_index, device_serial, start_date_str, remaining_dates,
                 completed_all_dates, days_processed, n_futures, fut_i,
                 progress_devices, total_progress_devices, loaded, submitted,
                 fetched >>

\* checkpoint.mark_date_complete(d, date), for any device and day
CallMarkDate ==
    /\ BetweenCalls
    /\ \E d \in { device_map[i] : i \in 1..Len(device_map) } :
         \E i \in 1..Len(date_ranges) :
             MarkDate(d, strftime_date(date_ranges[i][1]), None)
    /\ ManagerFrame

\* checkpoint.mark_device_complete(d), for any device
CallMarkDevice ==
    /\ BetweenCalls
    /\ \E d \in { device_map[i] : i \in 1..Len(device_map) } : MarkDevice(d, None)
    /\ ManagerFrame

\* CheckpointManager(path).load_checkpoint() of a second, fresh manager on
\* the same path (lines 23-34, 127-158); loaded is its checkpoint_data
FreshLoad ==
    /\ pc \in {"save_returned", "save_raised"}
    /\ loaded' = LoadCheckpoint(NewCheckpointData, file)
    /\ pc' = "loaded_fresh"
    /\ UNCHANGED << envVars, dirVars, saveVars, poolVars, shutdown_requested,
                    checkpoint_data, exc, remaining_devices, dev_pos, device_index,
                    device_serial, start_date_str, remaining_dates,
                    completed_all_dates, days_processed, n_futures, fut_i,
                    processed_devices, progress_devices, total_progress_devices,
                    submitted, fetched, save_failed, acked >>

NextManager ==
    \/ CallMarkDate
    \/ CallMarkDevice
    \/ FreshLoad
    \/ FsChange
    \/ SaveOpen
    \/ SaveDump
    \/ SaveReplace

SpecManager == Init /\ [][NextManager]_vars

\* C34: after mark_date_complete and mark_device_complete calls that all
\* returned, a fresh manager that loads from the same path has the
\* completed_devices and completed_dates of the saving manager, and
\* is_device_complete and is_date_complete answer alike in both.
C34_SaveLoadRoundTrip ==
    (pc = "loaded_fresh" /\ ~save_failed) =>
        /\ loaded.completed_devices = checkpoint_data.completed_devices
        /\ loaded.completed_dates = checkpoint_data.completed_dates
        /\ \A d \in Registry :
               /\ is_device_complete(loaded, d)
                      <=> is_device_complete(checkpoint_data, d)
               /\ \A dt \in RangeDates :
                      is_date_complete(loaded, d, dt)
                          <=> is_date_complete(checkpoint_data, d, dt)

\* a fresh manager has loaded what four calls that returned left: A complete
\* with both its days, d1 of B
C34_Witness ==
    /\ pc = "loaded_fresh"
    /\ ~save_failed
    /\ loaded.completed_devices = {"A"}
    /\ DatesOf(loaded, "A") = {"d1", "d2"}
    /\ DatesOf(loaded, "B") = {"d1"}

====
